---- MODULE Spec2Model ----
(***************************************************************************)
(* Model of the Flux rule-based text classification: the sentiment and     *)
(* moderation step of POST /api/posts, the POST /api/moderate endpoint,    *)
(* the create-post form and its caption suggestions.                       *)
(*                                                                         *)
(* A text is a sequence of one-character strings, so that toLowerCase,     *)
(* trim and includes are computed character by character as the            *)
(* JavaScript string methods compute them.                                 *)
(***************************************************************************)
EXTENDS Integers, Sequences, FiniteSets, TLC

(***************************************************************************)
(* Bounds of the model.                                                    *)
(***************************************************************************)
\* number of fragments concatenated into a classified text
MaxFrags == 3
\* number of requests one behaviour of the API sends
MaxRequests == 2

\* the posts created, and the comments created, in one run of the store
MaxDocs == 2

\* the posts, comments and likes written in one run of all four write
\* requests together
MaxWrites == 2

\* the calls of connectDB() made
MaxCallers == 2

(***************************************************************************)
(* JavaScript string methods, on sequences of characters.                  *)
(***************************************************************************)
LowerLetters ==
  <<"a","b","c","d","e","f","g","h","i","j","k","l","m",
    "n","o","p","q","r","s","t","u","v","w","x","y","z">>

UpperLetters ==
  <<"A","B","C","D","E","F","G","H","I","J","K","L","M",
    "N","O","P","Q","R","S","T","U","V","W","X","Y","Z">>

\* the lower-case letter of every upper-case letter
LowerOf ==
  [c \in {UpperLetters[i] : i \in 1..26} |->
     LowerLetters[CHOOSE i \in 1..26 : UpperLetters[i] = c]]

\* the upper-case letter of every lower-case letter
UpperOf ==
  [c \in {LowerLetters[i] : i \in 1..26} |->
     UpperLetters[CHOOSE i \in 1..26 : LowerLetters[i] = c]]

\* String.prototype.toLowerCase: letters are mapped, other characters kept
toLowerCase(t) ==
  [i \in 1..Len(t) |-> IF t[i] \in DOMAIN LowerOf THEN LowerOf[t[i]] ELSE t[i]]

\* String.prototype.toUpperCase
toUpperCase(t) ==
  [i \in 1..Len(t) |-> IF t[i] \in DOMAIN UpperOf THEN UpperOf[t[i]] ELSE t[i]]

\* String.prototype.includes: w occurs in t as a contiguous substring
includes(t, w) ==
  \E i \in 0..(Len(t) - Len(w)) : SubSeq(t, i + 1, i + Len(w)) = w

WhiteSpace == {" ", "\t", "\n"}

\* String.prototype.trim: leading and trailing white space removed
trim(t) ==
  LET inked == {i \in 1..Len(t) : t[i] \notin WhiteSpace}
  IN  IF inked = {} THEN <<>>
      ELSE SubSeq(t, CHOOSE i \in inked : \A j \in inked : i <= j,
                     CHOOSE i \in inked : \A j \in inked : j <= i)

\* Array.prototype.some over the words of a lexicon
some(words, t) == \E i \in 1..Len(words) : includes(t, words[i])

(***************************************************************************)
(* The lexicons of POST /api/posts.                                        *)
(***************************************************************************)
positiveWords ==
  << <<"g","r","e","a","t">>,
     <<"a","w","e","s","o","m","e">>,
     <<"a","m","a","z","i","n","g">>,
     <<"l","o","v","e">>,
     <<"e","x","c","e","l","l","e","n","t">>,
     <<"f","a","n","t","a","s","t","i","c">> >>

negativeWords ==
  << <<"b","a","d">>,
     <<"t","e","r","r","i","b","l","e">>,
     <<"h","a","t","e">>,
     <<"a","w","f","u","l">>,
     <<"h","o","r","r","i","b","l","e">>,
     <<"w","o","r","s","t">> >>

bannedWords ==
  << <<"s","p","a","m">>,
     <<"s","c","a","m">>,
     <<"b","a","n","n","e","d","_","w","o","r","d">> >>

\* the only term the moderation endpoint looks for
endpointBannedWord == <<"b","a","n","n","e","d","_","w","o","r","d">>

\* the value of a field that was never set
Undefined == "undefined"

FlagReasonText == "Contains inappropriate content"

(***************************************************************************)
(* The classification step of POST /api/posts.                             *)
(***************************************************************************)
hasPositive(lowerContent) == some(positiveWords, lowerContent)

hasNegative(lowerContent) == some(negativeWords, lowerContent)

\* number of terms of a lexicon that occur in the lowercased text
hits(words, t) ==
  Cardinality({i \in 1..Len(words) : includes(toLowerCase(t), words[i])})

\* a sentiment step that compares the two hit counts
sentimentByCount(content) ==
  IF hits(positiveWords, content) > hits(negativeWords, content) THEN "Positive"
  ELSE IF hits(negativeWords, content) > hits(positiveWords, content) THEN "Negative"
  ELSE "Neutral"

\* a sentiment step whose first branch forgets the negative lexicon
sentimentPositiveFirst(content) ==
  LET lowerContent == toLowerCase(content)
  IN  IF hasPositive(lowerContent) THEN "Positive"
      ELSE IF hasNegative(lowerContent) THEN "Negative"
      ELSE "Neutral"

\* a sentiment step that starts from 'Positive' instead of 'Neutral'
sentimentDefaultPositive(content) ==
  LET lowerContent == toLowerCase(content)
  IN  IF hasPositive(lowerContent) /\ ~hasNegative(lowerContent) THEN "Positive"
      ELSE IF hasNegative(lowerContent) /\ ~hasPositive(lowerContent) THEN "Negative"
      ELSE "Positive"

\* a sentiment step whose label starts unset
sentimentUnset(content) ==
  LET lowerContent == toLowerCase(content)
  IN  IF hasPositive(lowerContent) /\ ~hasNegative(lowerContent) THEN "Positive"
      ELSE IF hasNegative(lowerContent) /\ ~hasPositive(lowerContent) THEN "Negative"
      ELSE Undefined

\* let sentiment = 'Neutral'; if / else if on hasPositive, hasNegative
sentiment(content) ==
  LET lowerContent == toLowerCase(content)
  IN  IF hasPositive(lowerContent) /\ ~hasNegative(lowerContent) THEN "Positive"
      ELSE IF hasNegative(lowerContent) /\ ~hasPositive(lowerContent) THEN "Negative"
      ELSE "Neutral"

\* w occurs in t as a whole word: delimited by white space or the text's ends
includesWord(t, w) ==
  \E i \in 0..(Len(t) - Len(w)) :
     /\ SubSeq(t, i + 1, i + Len(w)) = w
     /\ (i = 0 \/ t[i] \in WhiteSpace)
     /\ (i + Len(w) = Len(t) \/ t[i + Len(w) + 1] \in WhiteSpace)

\* a moderation step that matches whole words only
flaggedWholeWord(content) ==
  \E i \in 1..Len(bannedWords) : includesWord(toLowerCase(content), bannedWords[i])

\* const flagged = bannedWords.some((word) => lowerContent.includes(word))
flagged(content) == some(bannedWords, toLowerCase(content))

\* a reason that is set whether or not the post is flagged
flagReasonAlways(isFlagged) == FlagReasonText

\* const flagReason = flagged ? 'Contains inappropriate content' : undefined
flagReason(isFlagged) == IF isFlagged THEN FlagReasonText ELSE Undefined

\* a pipeline that runs the sentiment step for unflagged content only
classifyGated(content) ==
  [sentiment  |-> IF flagged(content) THEN "Neutral" ELSE sentiment(content),
   flagged    |-> flagged(content),
   flagReason |-> flagReason(flagged(content))]

\* a classification that also lists the banned terms it matched
classifyWithTerms(content) ==
  [sentiment |-> sentiment(content),
   flagged |-> flagged(content),
   flagReason |-> flagReason(flagged(content)),
   matchedTerms |-> SelectSeq(bannedWords,
                              LAMBDA w : includes(toLowerCase(content), w))]

\* the three values post creation hands to Post.create
classify(content) ==
  [sentiment  |-> sentiment(content),
   flagged    |-> flagged(content),
   flagReason |-> flagReason(flagged(content))]

\* POST /api/moderate: flagged: text.includes('banned_word')
moderateFlagged(t) == includes(t, endpointBannedWord)

(***************************************************************************)
(* Texts: concatenations of a few fragments, among them lexicon terms in   *)
(* several cases, a term that embeds into a longer word, and white space.  *)
(***************************************************************************)
Frags ==
  { <<"l","o","v","e">>,
    <<"G","R","E","A","T">>,
    <<"b","a","d">>,
    <<"H","a","t","e">>,
    <<"s","p","a","m">>,
    <<"b","a","n","n","e","d","_","w","o","r","d">>,
    <<"B","A","N","N","E","D","_","W","O","R","D">>,
    <<"m","e","r">>,
    <<" ">> }

\* the concatenations of at most n of the given fragments
RECURSIVE ConcatsUpTo(_, _)
ConcatsUpTo(frags, n) ==
  IF n = 0 THEN {<<>>}
  ELSE LET shorter == ConcatsUpTo(frags, n - 1)
       IN  shorter \cup {t \o f : t \in shorter, f \in frags}

Texts == ConcatsUpTo(Frags, MaxFrags)

(***************************************************************************)
(* State.                                                                  *)
(***************************************************************************)
VARIABLES
  text,          \* the text handed to the classification step
  verdict,       \* what the classification step of post creation computed
  modVerdict,    \* what the moderation endpoint's check computed
  posts,         \* the Post collection, in order of creation
  nextPostId,    \* the _id the next created post gets
  log,           \* the requests answered so far, each with its response
  formContent,   \* create-post form: the content state
  isSubmitting,  \* create-post form: the isSubmitting state
  showError,     \* create-post form: the showError state
  pathname,      \* the page the browser shows
  suggestions,   \* create-post form: the caption buttons rendered
  capContext,    \* caption generation: the context of the request
  capResult,     \* caption generation: the suggestions returned
  calls,         \* POST /api/posts: the requests being handled, by call
  dashPosts,     \* admin dashboard: the posts state
  sentimentFilter, \* admin dashboard: the sentimentFilter state
  flaggedFilter, \* admin dashboard: the flaggedFilter state
  toastTitle,    \* admin dashboard: the title of the last toast shown
  comments,      \* the Comment collection, in order of creation
  nextCommentId, \* the _id the next created comment gets
  reply,         \* the last request answered, with its response
  users,         \* the User collection, in order of creation
  cachedConn,    \* lib/db: cached.conn
  cachedPromise, \* lib/db: cached.promise
  runs,          \* lib/db: the connectWithRetry promises created, in order
  callers,       \* lib/db: the connectDB() calls, by caller
  closers        \* lib/db: the disconnectDB() calls, by caller

coreVars == <<text, verdict, modVerdict>>

apiVars == <<posts, nextPostId, log>>

formVars == <<formContent, isSubmitting, showError, pathname, suggestions>>

capVars == <<capContext, capResult>>

concVars == <<calls>>

dashVars == <<dashPosts, sentimentFilter, flaggedFilter, toastTitle>>

storeVars == <<comments, nextCommentId, reply>>

\* the state of the parts modelled further down
regVars == <<users>>

dbVars == <<cachedConn, cachedPromise, runs, callers>>

closeVars == <<closers>>

sideVars == <<concVars, dashVars, storeVars, regVars, dbVars, closeVars>>

sideButConc == <<dashVars, storeVars, regVars, dbVars, closeVars>>

sideButDash == <<concVars, storeVars, regVars, dbVars, closeVars>>

sideButStore == <<concVars, dashVars, regVars, dbVars, closeVars>>

sideButReg == <<concVars, dashVars, dbVars, closeVars>>

sideButDb == <<concVars, dashVars, storeVars, regVars, closeVars>>

sideButDbAll == <<concVars, dashVars, storeVars, regVars>>

vars == <<text, verdict, modVerdict, posts, nextPostId, log,
          formContent, isSubmitting, showError, pathname, suggestions,
          capContext, capResult, calls,
          dashPosts, sentimentFilter, flaggedFilter, toastTitle,
          comments, nextCommentId, reply, users,
          cachedConn, cachedPromise, runs, callers, closers>>

\* no verdict computed yet
NoVerdict == [pending |-> TRUE]

\* a JSON field that is null or missing; a present value v is <<v>>
Absent == <<>>

(***************************************************************************)
(* The captions of the create-post form.                                   *)
(***************************************************************************)
\* a catalog whose three entries are one caption pasted three times
SUGGESTED_CAPTIONS_Pasted ==
  << <<"F","e","e","l","i","n","g"," ","i","n","s","p","i","r",
       "e","d"," ","b","y"," ","t","o","d","a","y","'","s"," ",
       "f","l","o","w","!"," ","U+1F30A">>,
     <<"F","e","e","l","i","n","g"," ","i","n","s","p","i","r",
       "e","d"," ","b","y"," ","t","o","d","a","y","'","s"," ",
       "f","l","o","w","!"," ","U+1F30A">>,
     <<"F","e","e","l","i","n","g"," ","i","n","s","p","i","r",
       "e","d"," ","b","y"," ","t","o","d","a","y","'","s"," ",
       "f","l","o","w","!"," ","U+1F30A">> >>

SUGGESTED_CAPTIONS ==
  << <<"F","e","e","l","i","n","g"," ","i","n","s","p","i","r",
       "e","d"," ","b","y"," ","t","o","d","a","y","'","s"," ",
       "f","l","o","w","!"," ","U+1F30A">>,
     <<"W","h","e","r","e"," ","i","d","e","a","s"," ","b","e",
       "c","o","m","e"," ","r","e","a","l","i","t","y","."," ",
       "#","F","l","u","x","A","p","p">>,
     <<"J","u","s","t"," ","a","n","o","t","h","e","r"," ","d",
       "a","y"," ","i","n"," ","t","h","e"," ","s","t","r","e",
       "a","m"," ","o","f"," ","t","h","o","u","g","h","t","s",
       "."," ","U+2728">> >>

\* the term handlePost blocks
formBannedWord == <<"s","p","a","m">>

\* SUGGESTED_CAPTIONS.map((caption, i) => <button ...>{caption}</button>)
renderCaptions == [i \in 1..Len(SUGGESTED_CAPTIONS) |-> SUGGESTED_CAPTIONS[i]]

(***************************************************************************)
(* The state of each component before it has done anything.                *)
(***************************************************************************)
CoreIdle ==
  /\ text = <<>>
  /\ verdict = NoVerdict
  /\ modVerdict = NoVerdict

ApiIdle ==
  /\ posts = <<>>
  /\ nextPostId = 1
  /\ log = <<>>

FormIdle ==
  /\ formContent = <<>>
  /\ isSubmitting = FALSE
  /\ showError = FALSE
  /\ pathname = "/create-post"
  /\ suggestions = renderCaptions

CapIdle ==
  /\ capContext = Absent
  /\ capResult = <<>>

\* no request is being handled
NoCall == [pc |-> "none"]

ConcIdle == calls = [c \in 1..MaxRequests |-> NoCall]

\* the posts of lib/dummy-data, with the fields the dashboard reads
initialPosts ==
  << [id |-> "1", sentiment |-> "Positive", flagged |-> FALSE, isFlagged |-> FALSE],
     [id |-> "2", sentiment |-> "Neutral",  flagged |-> FALSE, isFlagged |-> FALSE],
     [id |-> "3", sentiment |-> "Negative", flagged |-> FALSE, isFlagged |-> FALSE],
     [id |-> "4", sentiment |-> "Positive", flagged |-> FALSE, isFlagged |-> FALSE],
     [id |-> "5", sentiment |-> "Positive", flagged |-> FALSE, isFlagged |-> FALSE],
     [id |-> "6", sentiment |-> "Negative", flagged |-> TRUE,  isFlagged |-> TRUE] >>

\* the dashboard as first rendered
DashIdle ==
  /\ dashPosts = initialPosts
  /\ sentimentFilter = "All"
  /\ flaggedFilter = Absent
  /\ toastTitle = Undefined

\* no request answered yet
NoReply == [op |-> "none"]

StoreIdle ==
  /\ comments = <<>>
  /\ nextCommentId = 1
  /\ reply = NoReply

RegIdle == users = <<>>

\* connectDB() has not been called
NotCalled == [pc |-> "idle"]

\* let cached = global.mongoose || { conn: null, promise: null }
DbIdle ==
  /\ cachedConn = Absent
  /\ cachedPromise = Absent
  /\ runs = <<>>
  /\ callers = [c \in 1..MaxCallers |-> NotCalled]

\* disconnectDB() has not been called
CloseIdle == closers = [d \in 1..MaxCallers |-> NotCalled]

SideIdle == ConcIdle /\ DashIdle /\ StoreIdle /\ RegIdle /\ DbIdle /\ CloseIdle

(***************************************************************************)
(* The classification functions applied to one text.                       *)
(***************************************************************************)
CoreInit ==
  /\ text \in Texts
  /\ verdict = NoVerdict
  /\ modVerdict = NoVerdict
  /\ ApiIdle
  /\ FormIdle
  /\ CapIdle
  /\ SideIdle

\* route.ts 186-201 on the text
Classify ==
  /\ verdict = NoVerdict
  /\ verdict' = classify(text)
  /\ UNCHANGED <<text, modVerdict>>
  /\ UNCHANGED <<apiVars, formVars, capVars, sideVars>>

\* part_004 line 9 on the text
ModerateText ==
  /\ modVerdict = NoVerdict
  /\ modVerdict' = [flagged |-> moderateFlagged(text)]
  /\ UNCHANGED <<text, verdict>>
  /\ UNCHANGED <<apiVars, formVars, capVars, sideVars>>

CoreNext == Classify \/ ModerateText

SpecCore == CoreInit /\ [][CoreNext]_vars

(***************************************************************************)
(* The API: POST /api/posts and POST /api/moderate.                        *)
(***************************************************************************)
\* getServerSession() found no valid token
NoSession == "no session"

Users == {"u1", "u2"}

Sessions == Users \cup {NoSession}

\* the value of the content or text field of the request bodies sent
Bodies ==
  { Absent,
    << <<>> >>,
    << <<" ">> >>,
    << <<"L","o","v","e">> >>,
    << <<"s","p","a","m">> >>,
    << <<"S","P","A","M">> >>,
    << <<"l","o","v","e"," ","s","p","a","m">> >>,
    << <<" ","s","p","a","m","m","e","r"," ">> >>,
    << <<"b","a","n","n","e","d","_","w","o","r","d">> >>,
    << <<"B","A","N","N","E","D","_","W","O","R","D">> >> }

\* content.length > 2000
MaxContentLength == 2000

\* the enum of the sentiment field of the Post schema
SentimentTypes == {"Positive", "Neutral", "Negative"}

\* one answered request: what was sent, the status and error of the
\* response, and the post or verdict the response carries (<<r>>, or
\* <<>> when it carries none)
Exchange(op, session, body, dbUp, status, error, result) ==
  [op |-> op, session |-> session, body |-> body, dbUp |-> dbUp,
   status |-> status, error |-> error, result |-> result]

\* Post.create: the document as stored, content trimmed by the schema
PostDocument(id, userId, content, c) ==
  [id |-> id, userId |-> userId, content |-> trim(content),
   sentiment |-> c.sentiment, flagged |-> c.flagged,
   flagReason |-> c.flagReason, likes |-> <<>>, comments |-> <<>>]

\* the post object of the 201 response
transformedPost(post) ==
  [id |-> post.id, userId |-> post.userId, content |-> post.content,
   sentiment |-> post.sentiment, flagged |-> post.flagged,
   isFlagged |-> post.flagged, flagReason |-> post.flagReason,
   likes |-> 0, isLiked |-> FALSE, comments |-> 0, commentsCount |-> 0]

\* POST /api/posts with the given session cookie and body; dbUp tells
\* whether connectDB() and the database calls succeed
CreatePost(session, body, dbUp) ==
  /\ Len(log) < MaxRequests
  /\ IF session = NoSession
       THEN /\ log' = Append(log, Exchange("createPost", session, body, dbUp,
                               401, "Authentication required", <<>>))
            /\ UNCHANGED <<posts, nextPostId>>
     ELSE IF body = Absent \/ Len(trim(body[1])) = 0
       THEN /\ log' = Append(log, Exchange("createPost", session, body, dbUp,
                               400, "Content is required", <<>>))
            /\ UNCHANGED <<posts, nextPostId>>
     ELSE IF Len(body[1]) > MaxContentLength
       THEN /\ log' = Append(log, Exchange("createPost", session, body, dbUp,
                               400, "Content must be less than 2000 characters", <<>>))
            /\ UNCHANGED <<posts, nextPostId>>
     ELSE IF ~dbUp
       THEN /\ log' = Append(log, Exchange("createPost", session, body, dbUp,
                               500, "Failed to create post", <<>>))
            /\ UNCHANGED <<posts, nextPostId>>
     ELSE LET post == PostDocument(nextPostId, session, body[1], classify(body[1]))
          IN  /\ posts' = Append(posts, post)
              /\ nextPostId' = nextPostId + 1
              /\ log' = Append(log, Exchange("createPost", session, body, dbUp,
                                 201, Undefined, <<transformedPost(post)>>))
  /\ UNCHANGED <<coreVars, formVars, capVars, sideVars>>

\* POST /api/moderate with the given body: text.includes throws a
\* TypeError on a null or missing text, nothing catches it, and the
\* framework answers 500
Moderate(body) ==
  /\ Len(log) < MaxRequests
  /\ IF body = Absent
       THEN log' = Append(log, Exchange("moderate", NoSession, body, TRUE,
                            500, "TypeError", <<>>))
       ELSE log' = Append(log, Exchange("moderate", NoSession, body, TRUE,
                            200, Undefined, <<[flagged |-> moderateFlagged(body[1])]>>))
  /\ UNCHANGED <<posts, nextPostId>>
  /\ UNCHANGED <<coreVars, formVars, capVars, sideVars>>

Init == CoreIdle /\ ApiIdle /\ FormIdle /\ CapIdle /\ SideIdle

Next ==
  \/ \E session \in Sessions : \E body \in Bodies : \E dbUp \in BOOLEAN :
       CreatePost(session, body, dbUp)
  \/ \E body \in Bodies : Moderate(body)

Spec == Init /\ [][Next]_vars

(***************************************************************************)
(* POST /api/posts, await by await: several requests are handled at once   *)
(* and the event loop runs one of them from one await to the next.         *)
(***************************************************************************)
\* the content fields of the requests sent at the same time
ConcBodies ==
  { Absent,
    << <<"L","o","v","e">> >>,
    << <<"S","P","A","M">> >>,
    << <<"l","o","v","e"," ","s","p","a","m">> >> }

Call(pc, session, body, local, post) ==
  [pc |-> pc, session |-> session, body |-> body, local |-> local,
   post |-> post]

\* the handler returned its response
Done == [pc |-> "done"]

\* the response of call c is sent
respond(c, ok, status, error, result) ==
  /\ log' = Append(log, Exchange("createPost", calls[c].session, calls[c].body,
                          ok, status, error, result))
  /\ calls' = [calls EXCEPT ![c] = Done]

\* the block after connectDB() in call c, on shared content
classifyCallShared(c) ==
  LET waiting == {d \in DOMAIN calls : calls[d].pc = "connect"}
      latest == CHOOSE d \in waiting : \A e \in waiting : e <= d
  IN  classify(calls[latest].body[1])

\* the block after connectDB() in call c: its constants and results are
\* locals of the call, computed from the call's own content
classifyCall(c) == classify(calls[c].body[1])

\* a request arrives; the handler runs up to await requireAuth()
Receive(c, session, body) ==
  /\ calls[c] = NoCall
  /\ calls' = [calls EXCEPT ![c] = Call("auth", session, body, NoVerdict, Absent)]
  /\ UNCHANGED <<posts, nextPostId, log>>
  /\ UNCHANGED <<coreVars, formVars, capVars, sideButConc>>

\* requireAuth() settles; the handler runs up to await request.json()
Authenticated(c) ==
  /\ calls[c].pc = "auth"
  /\ IF calls[c].session = NoSession
       THEN respond(c, TRUE, 401, "Authentication required", <<>>)
       ELSE /\ calls' = [calls EXCEPT ![c].pc = "json"]
            /\ UNCHANGED log
  /\ UNCHANGED <<posts, nextPostId>>
  /\ UNCHANGED <<coreVars, formVars, capVars, sideButConc>>

\* request.json() settles; the content is validated and the handler runs
\* up to await connectDB()
Parsed(c) ==
  /\ calls[c].pc = "json"
  /\ IF calls[c].body = Absent \/ Len(trim(calls[c].body[1])) = 0
       THEN respond(c, TRUE, 400, "Content is required", <<>>)
     ELSE IF Len(calls[c].body[1]) > MaxContentLength
       THEN respond(c, TRUE, 400, "Content must be less than 2000 characters", <<>>)
     ELSE /\ calls' = [calls EXCEPT ![c].pc = "connect"]
          /\ UNCHANGED log
  /\ UNCHANGED <<posts, nextPostId>>
  /\ UNCHANGED <<coreVars, formVars, capVars, sideButConc>>

\* connectDB() settles; the content is classified and the handler runs up
\* to await Post.create(...)
Connected(c, ok) ==
  /\ calls[c].pc = "connect"
  /\ IF ~ok
       THEN respond(c, ok, 500, "Failed to create post", <<>>)
       ELSE /\ calls' = [calls EXCEPT ![c].pc = "create",
                                      ![c].local = classifyCall(c)]
            /\ UNCHANGED log
  /\ UNCHANGED <<posts, nextPostId>>
  /\ UNCHANGED <<coreVars, formVars, capVars, sideButConc>>

\* Post.create(...) settles; the handler runs up to await User.findById(...)
Created(c, ok) ==
  /\ calls[c].pc = "create"
  /\ IF ~ok
       THEN /\ respond(c, ok, 500, "Failed to create post", <<>>)
            /\ UNCHANGED <<posts, nextPostId>>
       ELSE LET post == PostDocument(nextPostId, calls[c].session,
                                     calls[c].body[1], calls[c].local)
            IN  /\ posts' = Append(posts, post)
                /\ nextPostId' = nextPostId + 1
                /\ calls' = [calls EXCEPT ![c].pc = "user", ![c].post = <<post>>]
                /\ UNCHANGED log
  /\ UNCHANGED <<coreVars, formVars, capVars, sideButConc>>

\* User.findById(...) settles; the handler answers
UserFetched(c, ok) ==
  /\ calls[c].pc = "user"
  /\ IF ~ok
       THEN respond(c, ok, 500, "Failed to create post", <<>>)
       ELSE respond(c, ok, 201, Undefined, <<transformedPost(calls[c].post[1])>>)
  /\ UNCHANGED <<posts, nextPostId>>
  /\ UNCHANGED <<coreVars, formVars, capVars, sideButConc>>

ConcInit == CoreIdle /\ ApiIdle /\ FormIdle /\ CapIdle /\ SideIdle

ConcNext ==
  \E c \in 1..MaxRequests :
    \/ \E session \in Sessions : \E body \in ConcBodies : Receive(c, session, body)
    \/ Authenticated(c)
    \/ Parsed(c)
    \/ \E ok \in BOOLEAN : Connected(c, ok)
    \/ \E ok \in BOOLEAN : Created(c, ok)
    \/ \E ok \in BOOLEAN : UserFetched(c, ok)

SpecConc == ConcInit /\ [][ConcNext]_vars

(***************************************************************************)
(* The admin dashboard.  The search box is left empty, so every row        *)
(* matches the search.                                                     *)
(***************************************************************************)
\* posts.filter(...) of the render: the rows shown
filteredPosts ==
  SelectSeq(dashPosts,
       LAMBDA post :
         /\ (sentimentFilter = "All" \/ post.sentiment = sentimentFilter)
         /\ (flaggedFilter = Absent \/ post.isFlagged = flaggedFilter[1]))

shownIds == {filteredPosts[k].id : k \in DOMAIN filteredPosts}

\* { ...p, isFlagged: !p.isFlagged }
toggled(p) == [p EXCEPT !.isFlagged = ~p.isFlagged]

\* Delete Post of the row of post id
handleDelete(id) ==
  /\ id \in shownIds
  /\ dashPosts' = SelectSeq(dashPosts, LAMBDA p : p.id # id)
  /\ toastTitle' = "Post deleted"
  /\ UNCHANGED <<sentimentFilter, flaggedFilter>>
  /\ UNCHANGED <<coreVars, apiVars, formVars, capVars, sideButDash>>

\* Flag Post / Unflag Post of the row of post id
toggleFlag(id) ==
  /\ id \in shownIds
  /\ dashPosts' = [k \in DOMAIN dashPosts |->
                     IF dashPosts[k].id = id THEN toggled(dashPosts[k])
                                             ELSE dashPosts[k]]
  /\ LET post == CHOOSE p \in {dashPosts[k] : k \in DOMAIN dashPosts} : p.id = id
     IN  toastTitle' = IF post.isFlagged THEN "Flag removed" ELSE "Post flagged"
  /\ UNCHANGED <<sentimentFilter, flaggedFilter>>
  /\ UNCHANGED <<coreVars, apiVars, formVars, capVars, sideButDash>>

setSentimentFilter(value) ==
  /\ sentimentFilter' = value
  /\ UNCHANGED <<dashPosts, flaggedFilter, toastTitle>>
  /\ UNCHANGED <<coreVars, apiVars, formVars, capVars, sideButDash>>

setFlaggedFilter(value) ==
  /\ flaggedFilter' = value
  /\ UNCHANGED <<dashPosts, sentimentFilter, toastTitle>>
  /\ UNCHANGED <<coreVars, apiVars, formVars, capVars, sideButDash>>

DashInit == CoreIdle /\ ApiIdle /\ FormIdle /\ CapIdle /\ SideIdle

DashNext ==
  \/ \E k \in DOMAIN initialPosts : handleDelete(initialPosts[k].id)
  \/ \E k \in DOMAIN initialPosts : toggleFlag(initialPosts[k].id)
  \/ \E value \in {"All"} \cup SentimentTypes : setSentimentFilter(value)
  \/ \E value \in {Absent, <<TRUE>>, <<FALSE>>} : setFlaggedFilter(value)

SpecDash == DashInit /\ [][DashNext]_vars

(***************************************************************************)
(* The stored posts and comments under the write requests: POST            *)
(* /api/posts, DELETE /api/posts/[postId], POST /api/likes and POST        *)
(* /api/comments.  Post ids are well-formed ObjectIds.                     *)
(***************************************************************************)
\* the users whose token carries isAdmin: true
Admins == {"u2"}

isAdmin(session) == session \in Admins

\* the ids a request can name
PostIds == 1..MaxDocs

\* the postId field of a request body
PostIdFields == {Absent} \cup {<<id>> : id \in PostIds}

\* the content fields of the post and comment requests
StoreBodies == { Absent, << <<" ">> >>, << <<"L","o","v","e">> >> }

\* content.length > 500
MaxCommentLength == 500

Reply(op, session, postId, bodyOk, dbUp, status, error, data) ==
  [op |-> op, session |-> session, postId |-> postId, bodyOk |-> bodyOk,
   dbUp |-> dbUp, status |-> status, error |-> error, data |-> data]

\* a response with no data besides success and error or message
NoData == [none |-> TRUE]

\* a session check that lets every request through
requireAuthOpen(session) == TRUE

\* requireAuth(): resolves with the session, or throws
\* 'Authentication required' when there is none
requireAuth(session) == session # NoSession

\* Post.findById(id): <<post>>, or <<>> for null
findById(id) == SelectSeq(posts, LAMBDA post : post.id = id)

\* an ownership check that lets every user through
mayDeleteAnyone(post, session) == TRUE

\* !(post.userId.toString() !== session.userId && !session.isAdmin)
mayDelete(post, session) == post.userId = session \/ isAdmin(session)

\* post.isLikedByUser(userId)
isLikedByUser(likes, userId) == \E k \in DOMAIN likes : likes[k] = userId

\* post.addLike(userId)
addLike(likes, userId) ==
  IF ~isLikedByUser(likes, userId) THEN Append(likes, userId) ELSE likes

\* a removal that leaves the array as it is
removeLikeKept(likes, userId) == likes

\* post.removeLike(userId)
removeLike(likes, userId) == SelectSeq(likes, LAMBDA likeId : likeId # userId)

\* post.save() of the post with the given id
savePost(id, saved) ==
  [k \in DOMAIN posts |-> IF posts[k].id = id THEN saved ELSE posts[k]]

\* POST /api/posts
createPost(session, body, dbUp) ==
  /\ nextPostId <= MaxDocs
  /\ LET bodyOk == body # Absent /\ Len(trim(body[1])) > 0
                   /\ Len(body[1]) <= MaxContentLength
     IN
     IF ~requireAuth(session)
       THEN /\ reply' = Reply("createPost", session, Absent, bodyOk, dbUp,
                              401, "Authentication required", NoData)
            /\ UNCHANGED <<posts, nextPostId>>
     ELSE IF body = Absent \/ Len(trim(body[1])) = 0
       THEN /\ reply' = Reply("createPost", session, Absent, bodyOk, dbUp,
                              400, "Content is required", NoData)
            /\ UNCHANGED <<posts, nextPostId>>
     ELSE IF Len(body[1]) > MaxContentLength
       THEN /\ reply' = Reply("createPost", session, Absent, bodyOk, dbUp,
                              400, "Content must be less than 2000 characters", NoData)
            /\ UNCHANGED <<posts, nextPostId>>
     ELSE IF ~dbUp
       THEN /\ reply' = Reply("createPost", session, Absent, bodyOk, dbUp,
                              500, "Failed to create post", NoData)
            /\ UNCHANGED <<posts, nextPostId>>
     ELSE LET post == PostDocument(nextPostId, session, body[1], classify(body[1]))
          IN  /\ posts' = Append(posts, post)
              /\ nextPostId' = nextPostId + 1
              /\ reply' = Reply("createPost", session, <<post.id>>, bodyOk, dbUp,
                                201, Undefined, transformedPost(post))
  /\ UNCHANGED <<log, comments, nextCommentId>>
  /\ UNCHANGED <<coreVars, formVars, capVars, sideButStore>>

\* DELETE /api/posts/[postId]
deletePost(session, postId, dbUp) ==
  /\ IF ~requireAuth(session)
       THEN /\ reply' = Reply("deletePost", session, <<postId>>, TRUE, dbUp,
                              401, "Authentication required", NoData)
            /\ UNCHANGED posts
     ELSE IF ~dbUp
       THEN /\ reply' = Reply("deletePost", session, <<postId>>, TRUE, dbUp,
                              500, "Failed to delete post", NoData)
            /\ UNCHANGED posts
     ELSE IF findById(postId) = <<>>
       THEN /\ reply' = Reply("deletePost", session, <<postId>>, TRUE, dbUp,
                              404, "Post not found", NoData)
            /\ UNCHANGED posts
     ELSE IF ~mayDelete(findById(postId)[1], session)
       THEN /\ reply' = Reply("deletePost", session, <<postId>>, TRUE, dbUp,
                              403, "Not authorized to delete this post", NoData)
            /\ UNCHANGED posts
     ELSE /\ posts' = SelectSeq(posts, LAMBDA post : post.id # postId)
          /\ reply' = Reply("deletePost", session, <<postId>>, TRUE, dbUp,
                            200, Undefined, NoData)
  /\ UNCHANGED <<nextPostId, log, comments, nextCommentId>>
  /\ UNCHANGED <<coreVars, formVars, capVars, sideButStore>>

\* POST /api/likes
toggleLike(session, postId, dbUp) ==
  /\ IF ~requireAuth(session)
       THEN /\ reply' = Reply("toggleLike", session, postId, postId # Absent, dbUp,
                              401, "Authentication required", NoData)
            /\ UNCHANGED posts
     ELSE IF postId = Absent
       THEN /\ reply' = Reply("toggleLike", session, postId, FALSE, dbUp,
                              400, "Post ID is required", NoData)
            /\ UNCHANGED posts
     ELSE IF ~dbUp
       THEN /\ reply' = Reply("toggleLike", session, postId, TRUE, dbUp,
                              500, "Failed to toggle like", NoData)
            /\ UNCHANGED posts
     ELSE IF findById(postId[1]) = <<>>
       THEN /\ reply' = Reply("toggleLike", session, postId, TRUE, dbUp,
                              404, "Post not found", NoData)
            /\ UNCHANGED posts
     ELSE LET post == findById(postId[1])[1]
              isLiked == isLikedByUser(post.likes, session)
              likes == IF isLiked THEN removeLike(post.likes, session)
                                  ELSE addLike(post.likes, session)
          IN  /\ posts' = savePost(post.id, [post EXCEPT !.likes = likes])
              /\ LET updatedPost == SelectSeq(posts', LAMBDA q : q.id = post.id)[1]
                 IN  reply' = Reply("toggleLike", session, postId, TRUE, dbUp,
                                    200, Undefined,
                                    [likes |-> Len(updatedPost.likes),
                                     isLiked |-> ~isLiked,
                                     likesBefore |-> post.likes])
  /\ UNCHANGED <<nextPostId, log, comments, nextCommentId>>
  /\ UNCHANGED <<coreVars, formVars, capVars, sideButStore>>

\* a method that saves the post without the comment
addCommentDropped(post, commentId) == post

\* PostSchema.methods.addComment: this.comments.push(commentId), saved by
\* the caller
addComment(post, commentId) == [post EXCEPT !.comments = Append(@, commentId)]

\* POST /api/comments; Comment.create has stored the comment when the
\* save of post.addComment fails (saveOk is FALSE)
createComment(session, postId, body, dbUp, saveOk) ==
  /\ nextCommentId <= MaxDocs
  /\ LET bodyOk == postId # Absent /\ body # Absent /\ Len(trim(body[1])) > 0
                   /\ Len(body[1]) <= MaxCommentLength
     IN
     IF ~requireAuth(session)
       THEN /\ reply' = Reply("createComment", session, postId, bodyOk, dbUp,
                              401, "Authentication required", NoData)
            /\ UNCHANGED <<posts, comments, nextCommentId>>
     ELSE IF postId = Absent \/ body = Absent \/ Len(body[1]) = 0
       THEN /\ reply' = Reply("createComment", session, postId, bodyOk, dbUp,
                              400, "Post ID and content are required", NoData)
            /\ UNCHANGED <<posts, comments, nextCommentId>>
     ELSE IF Len(trim(body[1])) = 0
       THEN /\ reply' = Reply("createComment", session, postId, bodyOk, dbUp,
                              400, "Content cannot be empty", NoData)
            /\ UNCHANGED <<posts, comments, nextCommentId>>
     ELSE IF Len(body[1]) > MaxCommentLength
       THEN /\ reply' = Reply("createComment", session, postId, bodyOk, dbUp,
                              400, "Content must be less than 500 characters", NoData)
            /\ UNCHANGED <<posts, comments, nextCommentId>>
     ELSE IF ~dbUp
       THEN /\ reply' = Reply("createComment", session, postId, bodyOk, dbUp,
                              500, "Failed to create comment", NoData)
            /\ UNCHANGED <<posts, comments, nextCommentId>>
     ELSE IF findById(postId[1]) = <<>>
       THEN /\ reply' = Reply("createComment", session, postId, bodyOk, dbUp,
                              404, "Post not found", NoData)
            /\ UNCHANGED <<posts, comments, nextCommentId>>
     ELSE LET post == findById(postId[1])[1]
              comment == [id |-> nextCommentId, postId |-> post.id,
                          userId |-> session, content |-> trim(body[1])]
          IN  /\ comments' = Append(comments, comment)
              /\ nextCommentId' = nextCommentId + 1
              /\ IF saveOk
                   THEN /\ posts' = savePost(post.id, addComment(post, comment.id))
                        /\ reply' = Reply("createComment", session, postId, bodyOk,
                                          dbUp, 201, Undefined, comment)
                   ELSE /\ posts' = posts
                        /\ reply' = Reply("createComment", session, postId, bodyOk,
                                          dbUp, 500, "Failed to create comment", NoData)
  /\ UNCHANGED <<nextPostId, log>>
  /\ UNCHANGED <<coreVars, formVars, capVars, sideButStore>>

StoreInit == CoreIdle /\ ApiIdle /\ FormIdle /\ CapIdle /\ SideIdle

\* POST /api/posts and DELETE /api/posts/[postId]
PostsNext ==
  \E session \in Sessions : \E dbUp \in BOOLEAN :
    \/ \E body \in StoreBodies : createPost(session, body, dbUp)
    \/ \E postId \in PostIds : deletePost(session, postId, dbUp)

SpecPosts == StoreInit /\ [][PostsNext]_vars

\* POST /api/posts and POST /api/likes
LikesNext ==
  \E session \in Sessions : \E dbUp \in BOOLEAN :
    \/ \E body \in StoreBodies : createPost(session, body, dbUp)
    \/ \E postId \in PostIdFields : toggleLike(session, postId, dbUp)

SpecLikes == StoreInit /\ [][LikesNext]_vars

RECURSIVE likesStored(_)
\* the likes stored in the first n posts
likesStored(n) ==
  IF n = 0 THEN 0 ELSE Len(posts[n].likes) + likesStored(n - 1)

\* the posts and comments created and the likes stored
written == (nextPostId - 1) + (nextCommentId - 1) + likesStored(Len(posts))

\* the four write requests together
StoreNext ==
  \E session \in Sessions : \E dbUp \in BOOLEAN :
    \/ \E body \in StoreBodies :
         written < MaxWrites /\ createPost(session, body, dbUp)
    \/ \E postId \in PostIds :
         written < MaxWrites /\ deletePost(session, postId, dbUp)
    \/ \E postId \in PostIdFields :
         written < MaxWrites /\ toggleLike(session, postId, dbUp)
    \/ \E postId \in PostIdFields : \E body \in StoreBodies : \E saveOk \in BOOLEAN :
         written < MaxWrites /\ createComment(session, postId, body, dbUp, saveOk)

SpecStore == StoreInit /\ [][StoreNext]_vars

\* the comment bodies sent
CommentBodies == {<< <<"L","o","v","e">> >>}

\* POST /api/posts, POST /api/comments and DELETE /api/posts/[postId];
\* the database is reachable, and the second write of a comment creation
\* succeeds or fails
CommentsNext ==
  \E session \in Sessions :
    \/ \E body \in CommentBodies : createPost(session, body, TRUE)
    \/ \E postId \in PostIds : \E body \in CommentBodies : \E saveOk \in BOOLEAN :
         createComment(session, <<postId>>, body, TRUE, saveOk)
    \/ \E postId \in PostIds : deletePost(session, postId, TRUE)

SpecComments == StoreInit /\ [][CommentsNext]_vars

\* GET /api/posts: comments and commentsCount of a post
commentsCount(post) == Len(post.comments)

\* GET /api/comments?postId=: Comment.find({ postId })
findComments(postId) == SelectSeq(comments, LAMBDA c : c.postId = postId)

\* GET /api/comments?postId=: total
commentsTotal(postId) == Len(findComments(postId))

(***************************************************************************)
(* Registration: POST /api/auth/register.                                  *)
(***************************************************************************)
\* the email fields of the requests sent
Emails ==
  { Absent,
    << <<"a","@","x",".","i","o">> >>,
    << <<"A","@","X",".","i","o">> >>,
    << <<"b","@","x",".","i","o">> >> }

\* the username fields of the requests sent
Usernames ==
  { Absent,
    << <<"a","n","n">> >>,
    << <<"A","n","n">> >>,
    << <<"b","o","b">> >> }

\* the password fields of the requests sent
Passwords ==
  { Absent,
    << <<"a","b","c">> >>,
    << <<"s","e","c","r","e","t","1">> >> }

\* the firstName and lastName fields of the requests sent
Names == { Absent, << <<"A","l">> >> }

\* password.length < 6
MinPasswordLength == 6

\* password.length > 128
MaxPasswordLength == 128

\* validatePassword(password).valid
validatePassword(password) ==
  /\ Len(password) >= MinPasswordLength
  /\ Len(password) <= MaxPasswordLength

RegReply(email, username, valid, dbUp, status, error, setCookie) ==
  [op |-> "register", email |-> email, username |-> username,
   valid |-> valid, dbUp |-> dbUp, status |-> status, error |-> error,
   setCookie |-> setCookie]

\* a lookup by the email alone
matchingUsersByEmail(email, username) ==
  {k \in DOMAIN users : users[k].email = toLowerCase(email)}

\* the users the filter { $or: [{ email }, { username }] } of the lookup
\* matches, each field lowercased by the handler
matchingUsers(email, username) ==
  {k \in DOMAIN users : \/ users[k].email = toLowerCase(email)
                        \/ users[k].username = toLowerCase(username)}

\* the unique indexes of the User schema admit the document
indexesAdmit(user) ==
  \A k \in DOMAIN users : /\ users[k].email # user.email
                          /\ users[k].username # user.username

\* POST /api/auth/register; User.findOne returns one of the users its
\* filter matches, whichever the database finds first
register(email, password, firstName, lastName, username, dbUp) ==
  LET valid == /\ email # Absent /\ Len(email[1]) > 0
               /\ password # Absent /\ Len(password[1]) > 0
               /\ firstName # Absent /\ Len(firstName[1]) > 0
               /\ lastName # Absent /\ Len(lastName[1]) > 0
               /\ username # Absent /\ Len(username[1]) > 0
               /\ validatePassword(password[1])
  IN
  /\ IF \/ email = Absent \/ password = Absent \/ firstName = Absent
        \/ lastName = Absent \/ username = Absent
        \/ Len(email[1]) = 0 \/ Len(password[1]) = 0 \/ Len(firstName[1]) = 0
        \/ Len(lastName[1]) = 0 \/ Len(username[1]) = 0
       THEN /\ reply' = RegReply(email, username, valid, dbUp,
                                 400, "All fields are required", <<>>)
            /\ UNCHANGED users
     ELSE IF ~validatePassword(password[1])
       THEN /\ reply' = RegReply(email, username, valid, dbUp,
                                 400, "Password must be at least 6 characters long", <<>>)
            /\ UNCHANGED users
     ELSE IF ~dbUp
       THEN /\ reply' = RegReply(email, username, valid, dbUp,
                                 500, "Registration failed. Please try again.", <<>>)
            /\ UNCHANGED users
     ELSE IF matchingUsers(email[1], username[1]) # {}
       THEN /\ \E k \in matchingUsers(email[1], username[1]) :
                 LET existingUser == users[k]
                     field == IF existingUser.email = toLowerCase(email[1])
                                THEN "Email already exists"
                                ELSE "Username already exists"
                 IN  reply' = RegReply(email, username, valid, dbUp,
                                       409, field, <<>>)
            /\ UNCHANGED users
     ELSE LET user == [id |-> Len(users) + 1,
                       email |-> toLowerCase(email[1]),
                       username |-> toLowerCase(username[1]),
                       isAdmin |-> FALSE]
          IN  IF ~indexesAdmit(user)
                THEN /\ reply' = RegReply(email, username, valid, dbUp,
                                          500, "Registration failed. Please try again.", <<>>)
                     /\ UNCHANGED users
                ELSE /\ users' = Append(users, user)
                     /\ reply' = RegReply(email, username, valid, dbUp,
                                          201, Undefined, <<user.id>>)
  /\ UNCHANGED <<comments, nextCommentId>>
  /\ UNCHANGED <<coreVars, apiVars, formVars, capVars, sideButReg>>

RegInit == CoreIdle /\ ApiIdle /\ FormIdle /\ CapIdle /\ SideIdle

RegNext ==
  \E email \in Emails : \E password \in Passwords : \E firstName \in Names :
    \E lastName \in Names : \E username \in Usernames : \E dbUp \in BOOLEAN :
      register(email, password, firstName, lastName, username, dbUp)

SpecRegister == RegInit /\ [][RegNext]_vars

(***************************************************************************)
(* lib/db: connectDB() and connectWithRetry(), await by await.  A run is   *)
(* one call of connectWithRetry, that is, one promise.                     *)
(***************************************************************************)
\* connectWithRetry(MONGODB_URI, opts, 3)
Retries == 3

\* delay: number = 1000
Delay == 1000

\* Math.random() * 1000, in whole milliseconds
Jitters == {0, 999}

RECURSIVE pow2(_)
\* Math.pow(2, n)
pow2(n) == IF n = 0 THEN 1 ELSE 2 * pow2(n - 1)

\* delay * Math.pow(2, attempt - 1) + Math.random() * 1000
backoffDelay(attempt, jitter) == Delay * pow2(attempt - 1) + jitter

\* a check of the last attempt that never holds
lastAttemptNever(attempt) == FALSE

\* attempt === retries
lastAttempt(attempt) == attempt = Retries

\* a check of the pending promise that never finds one
pendingNever == FALSE

\* if (cached.promise)
pending == cachedPromise # Absent

\* one run: the attempt it is at, where it stands, the delays it has
\* waited, and the connection it resolved with or the error it threw
Run(attempt, state, waits, conn, error) ==
  [attempt |-> attempt, state |-> state, waits |-> waits, conn |-> conn,
   error |-> error]

\* connectDB() is called: it runs up to its first await or returns
connectDB(c) ==
  /\ callers[c] = NotCalled
  /\ IF cachedConn # Absent
       THEN /\ callers' = [callers EXCEPT ![c] =
                             [pc |-> "returned", conn |-> cachedConn[1]]]
            /\ UNCHANGED <<cachedConn, cachedPromise, runs>>
     ELSE IF pending
       THEN /\ callers' = [callers EXCEPT ![c] =
                             [pc |-> "awaitPending", promise |-> cachedPromise[1]]]
            /\ UNCHANGED <<cachedConn, cachedPromise, runs>>
     ELSE /\ runs' = Append(runs, Run(1, "connecting", <<>>, Absent, Undefined))
          /\ cachedPromise' = <<Len(runs) + 1>>
          /\ callers' = [callers EXCEPT ![c] =
                           [pc |-> "awaitNew", promise |-> Len(runs) + 1]]
          /\ UNCHANGED cachedConn
  /\ UNCHANGED <<coreVars, apiVars, formVars, capVars, sideButDb>>

\* mongoose.connect(uri, opts) of run r settles: the run returns the
\* connection, or throws after the last attempt, or starts its backoff
connectSettles(r, ok, jitter) ==
  /\ r \in DOMAIN runs
  /\ runs[r].state = "connecting"
  /\ IF ok
       THEN runs' = [runs EXCEPT ![r].state = "resolved",
                                 ![r].conn = <<[run |-> r, attempt |-> runs[r].attempt]>>]
     ELSE IF lastAttempt(runs[r].attempt)
       THEN runs' = [runs EXCEPT ![r].state = "rejected",
                                 ![r].error = "Failed to connect to MongoDB after 3 attempts"]
     ELSE runs' = [runs EXCEPT ![r].state = "waiting",
                               ![r].waits = Append(@, backoffDelay(runs[r].attempt, jitter))]
  /\ UNCHANGED <<cachedConn, cachedPromise, callers>>
  /\ UNCHANGED <<coreVars, apiVars, formVars, capVars, sideButDb>>

\* the backoff timer of run r fires: attempt++, and the loop goes on
\* while attempt <= retries
timerFires(r) ==
  /\ r \in DOMAIN runs
  /\ runs[r].state = "waiting"
  /\ IF runs[r].attempt + 1 <= Retries
       THEN runs' = [runs EXCEPT ![r].attempt = @ + 1, ![r].state = "connecting"]
       ELSE runs' = [runs EXCEPT ![r].attempt = @ + 1, ![r].state = "rejected",
                                 ![r].error = "Unexpected error in connectWithRetry"]
  /\ UNCHANGED <<cachedConn, cachedPromise, callers>>
  /\ UNCHANGED <<coreVars, apiVars, formVars, capVars, sideButDb>>

\* the promise caller c awaits has settled and the caller goes on
resume(c) ==
  /\ callers[c].pc \in {"awaitPending", "awaitNew"}
  /\ LET run == runs[callers[c].promise]
     IN  /\ run.state \in {"resolved", "rejected"}
         /\ IF run.state = "resolved"
              THEN /\ cachedConn' = run.conn
                   /\ callers' = [callers EXCEPT ![c] =
                                    [pc |-> "returned", conn |-> run.conn[1]]]
                   /\ UNCHANGED cachedPromise
            ELSE IF callers[c].pc = "awaitNew"
              THEN /\ cachedPromise' = Absent
                   /\ callers' = [callers EXCEPT ![c] =
                                    [pc |-> "threw", error |-> run.error]]
                   /\ UNCHANGED cachedConn
            ELSE /\ callers' = [callers EXCEPT ![c] =
                                  [pc |-> "threw", error |-> run.error]]
                 /\ UNCHANGED <<cachedConn, cachedPromise>>
  /\ UNCHANGED runs
  /\ UNCHANGED <<coreVars, apiVars, formVars, capVars, sideButDb>>

DbInit == CoreIdle /\ ApiIdle /\ FormIdle /\ CapIdle /\ SideIdle

DbNext ==
  \/ \E c \in 1..MaxCallers : connectDB(c)
  \/ \E r \in 1..MaxCallers : \E ok \in BOOLEAN : \E jitter \in Jitters :
       connectSettles(r, ok, jitter)
  \/ \E r \in 1..MaxCallers : timerFires(r)
  \/ \E c \in 1..MaxCallers : resume(c)

SpecDb == DbInit /\ [][DbNext]_vars

\* mongoose.connect settles within serverSelectionTimeoutMS, timers fire,
\* and a settled promise runs its continuations
DbFairness ==
  /\ \A r \in 1..MaxCallers :
       /\ WF_vars(\E ok \in BOOLEAN : \E jitter \in Jitters : connectSettles(r, ok, jitter))
       /\ WF_vars(timerFires(r))
  /\ \A c \in 1..MaxCallers : WF_vars(resume(c))

SpecDbFair == DbInit /\ [][DbNext]_vars /\ DbFairness

(***************************************************************************)
(* lib/db with disconnectDB(): the calls of connectDB() and of             *)
(* disconnectDB() interleave at their awaits.  mongoose.disconnect()       *)
(* resolves.                                                               *)
(***************************************************************************)
\* if (cached.conn)
connected == cachedConn # Absent

\* disconnectDB() is called: it runs up to await mongoose.disconnect(),
\* or returns at once when no connection is cached
disconnectDB(d) ==
  /\ closers[d] = NotCalled
  /\ IF connected
       THEN closers' = [closers EXCEPT ![d] = [pc |-> "awaitDisconnect"]]
       ELSE closers' = [closers EXCEPT ![d] = [pc |-> "returned"]]
  /\ UNCHANGED <<cachedConn, cachedPromise, runs, callers>>
  /\ UNCHANGED <<coreVars, apiVars, formVars, capVars, sideButDbAll>>

\* mongoose.disconnect() of call d resolved: both cache fields are cleared
disconnected(d) ==
  /\ closers[d].pc = "awaitDisconnect"
  /\ cachedConn' = Absent
  /\ cachedPromise' = Absent
  /\ closers' = [closers EXCEPT ![d] = [pc |-> "returned"]]
  /\ UNCHANGED <<runs, callers>>
  /\ UNCHANGED <<coreVars, apiVars, formVars, capVars, sideButDbAll>>

DbAllNext ==
  \/ DbNext
  \/ \E d \in 1..MaxCallers : disconnectDB(d)
  \/ \E d \in 1..MaxCallers : disconnected(d)

SpecDbAll == DbInit /\ [][DbAllNext]_vars

(***************************************************************************)
(* The create-post form.                                                   *)
(***************************************************************************)
\* what the user types into the textarea
FormTexts == ConcatsUpTo(Frags, 2)

FormInit == CoreIdle /\ ApiIdle /\ FormIdle /\ CapIdle /\ SideIdle

\* the textarea's onChange
onChange(value) ==
  /\ pathname = "/create-post"
  /\ formContent' = value
  /\ showError' = FALSE
  /\ suggestions' = renderCaptions
  /\ UNCHANGED <<isSubmitting, pathname>>
  /\ UNCHANGED <<coreVars, apiVars, capVars, sideVars>>

\* the onClick of the i-th caption button
clickCaption(i) ==
  /\ pathname = "/create-post"
  /\ formContent' = suggestions[i]
  /\ suggestions' = renderCaptions
  /\ UNCHANGED <<isSubmitting, showError, pathname>>
  /\ UNCHANGED <<coreVars, apiVars, capVars, sideVars>>

\* content.toLowerCase().includes("spam"): the form blocks the post
formBlocks(content) == includes(toLowerCase(content), formBannedWord)

\* the Post button, disabled while isSubmitting || !content.trim()
handlePost ==
  /\ pathname = "/create-post"
  /\ ~isSubmitting
  /\ trim(formContent) # <<>>
  /\ IF formBlocks(formContent)
       THEN showError' = TRUE /\ UNCHANGED isSubmitting
       ELSE isSubmitting' = TRUE /\ UNCHANGED showError
  /\ suggestions' = renderCaptions
  /\ UNCHANGED <<formContent, pathname>>
  /\ UNCHANGED <<coreVars, apiVars, capVars, sideVars>>

\* the setTimeout callback of handlePost: the post is "created"
postTimeout ==
  /\ pathname = "/create-post"
  /\ isSubmitting
  /\ isSubmitting' = FALSE
  /\ pathname' = "/feed"
  /\ UNCHANGED <<formContent, showError, suggestions>>
  /\ UNCHANGED <<coreVars, apiVars, capVars, sideVars>>

FormNext ==
  \/ \E value \in FormTexts : onChange(value)
  \/ \E i \in 1..Len(suggestions) : clickCaption(i)
  \/ handlePost
  \/ postTimeout

SpecForm == FormInit /\ [][FormNext]_vars

(***************************************************************************)
(* Caption generation, as the specification describes it: a catalog of     *)
(* templates with trigger keywords, the matching templates first, padded   *)
(* from the catalog.  The catalog starts with the form's three captions.   *)
(***************************************************************************)
MinCaptions == 3

MaxCaptions == 5

CaptionCatalog ==
  << [triggers |-> {<<"i","n","s","p","i","r">>, <<"f","l","o","w">>},
      text |-> SUGGESTED_CAPTIONS[1]],
     [triggers |-> {<<"i","d","e","a">>, <<"r","e","a","l">>},
      text |-> SUGGESTED_CAPTIONS[2]],
     [triggers |-> {<<"s","t","r","e","a","m">>, <<"f","l","o","w">>},
      text |-> SUGGESTED_CAPTIONS[3]],
     [triggers |-> {<<"l","a","u","n","c","h">>, <<"p","r","o","j","e","c","t">>},
      text |-> <<"W","e"," ","j","u","s","t"," ","l","a","u","n","c","h","e","d"," ","s","o","m","e","t","h","i","n","g"," ","n","e","w",".">>],
     [triggers |-> {<<"p","r","o","j","e","c","t">>, <<"i","d","e","a">>},
      text |-> <<"A"," ","p","r","o","j","e","c","t"," ","w","o","r","t","h"," ","s","h","a","r","i","n","g",".">>],
     [triggers |-> {<<"i","d","e","a">>, <<"t","h","i","n","k">>},
      text |-> <<"T","h","i","n","k","i","n","g"," ","o","u","t"," ","l","o","u","d"," ","t","o","d","a","y",".">>] >>

\* the sequence of the elements of a set of catalog positions, ascending
RECURSIVE Ascending(_)
Ascending(S) ==
  IF S = {} THEN <<>>
  ELSE LET least == CHOOSE i \in S : \A j \in S : i <= j
       IN  <<least>> \o Ascending(S \ {least})

\* the first n elements of a sequence, or all of it
Take(seq, n) == SubSeq(seq, 1, IF Len(seq) < n THEN Len(seq) ELSE n)

\* the template has a trigger that occurs in the normalized context
triggered(template, normalized) ==
  \E trigger \in template.triggers : includes(normalized, trigger)

\* a generator that offers the first templates whatever the context is
generateCaptionsStatic(context) ==
  [i \in 1..MinCaptions |-> CaptionCatalog[i].text]

\* generateCaptions(context?): the captions suggested for a context
generateCaptions(context) ==
  LET all == Ascending(1..Len(CaptionCatalog))
      picked ==
        IF context = Absent \/ context[1] = <<>>
          THEN Take(all, MinCaptions)
        ELSE LET normalized == toLowerCase(context[1])
                 matched == Ascending({i \in 1..Len(CaptionCatalog) :
                                         triggered(CaptionCatalog[i], normalized)})
                 others == Ascending({i \in 1..Len(CaptionCatalog) :
                                         ~triggered(CaptionCatalog[i], normalized)})
             IN  IF Len(matched) >= MinCaptions
                   THEN Take(matched, MaxCaptions)
                   ELSE matched \o Take(others, MinCaptions - Len(matched))
  IN  [k \in 1..Len(picked) |-> CaptionCatalog[picked[k]].text]

\* fragments of the contexts: trigger keywords in several cases and filler
ContextFrags ==
  { <<"i","d","e","a">>,
    <<"F","l","o","w">>,
    <<"P","R","O","J","E","C","T">>,
    <<"l","a","u","n","c","h">>,
    <<" ">>,
    <<"l","u","n","c","h">> }

Contexts == {Absent} \cup {<<c>> : c \in ConcatsUpTo(ContextFrags, MaxFrags)}

CapInit ==
  /\ CoreIdle
  /\ ApiIdle
  /\ FormIdle
  /\ SideIdle
  /\ capContext \in Contexts
  /\ capResult = <<>>

\* one caption request answered
Generate ==
  /\ capResult = <<>>
  /\ capResult' = generateCaptions(capContext)
  /\ UNCHANGED capContext
  /\ UNCHANGED <<coreVars, apiVars, formVars, sideVars>>

CapNext == Generate

SpecCaptions == CapInit /\ [][CapNext]_vars

(***************************************************************************)
(* Properties of the classification step.                                  *)
(***************************************************************************)
positiveHits == hits(positiveWords, text)

negativeHits == hits(negativeWords, text)

Classified == verdict # NoVerdict

\* C1 as stated: the label follows the comparison of the two hit counts,
\* Positive when more positive terms occur, Negative when more negative
\* terms occur, also when terms of both lexicons occur.
C1_LabelByCountComparison ==
  Classified =>
    /\ (positiveHits > negativeHits => verdict.sentiment = "Positive")
    /\ (negativeHits > positiveHits => verdict.sentiment = "Negative")

\* C1 amended: the label is Positive when a positive term occurs and no
\* negative term does, Negative when a negative term occurs and no positive
\* term does, and Neutral whenever terms of both lexicons occur, whatever
\* their numbers.
C1_LabelByPresence ==
  Classified =>
    /\ (positiveHits > 0 /\ negativeHits = 0 => verdict.sentiment = "Positive")
    /\ (negativeHits > 0 /\ positiveHits = 0 => verdict.sentiment = "Negative")
    /\ (positiveHits > 0 /\ negativeHits > 0 => verdict.sentiment = "Neutral")

\* two positive terms and one negative term were classified Neutral
C1_Witness ==
  /\ Classified
  /\ positiveHits = 2
  /\ negativeHits = 1
  /\ verdict.sentiment = "Neutral"

\* C2: a text with as many positive terms as negative terms, and at least
\* one of each, is labelled Neutral.
C2_TieIsNeutral ==
  (Classified /\ positiveHits = negativeHits /\ positiveHits > 0)
    => verdict.sentiment = "Neutral"

\* a text with one positive and one negative term was classified
C2_Witness ==
  /\ Classified
  /\ positiveHits = 1
  /\ negativeHits = 1
  /\ verdict.sentiment = "Neutral"

\* w occurs in t: at some position of t the characters of w follow
occursIn(w, t) ==
  \E a \in 1..(Len(t) - Len(w) + 1) : \A k \in 1..Len(w) : t[a + k - 1] = w[k]

\* the banned terms that occur somewhere inside the lowercased text
bannedTermsIn(t) ==
  LET lowered == toLowerCase(t)
  IN  {i \in 1..Len(bannedWords) : occursIn(bannedWords[i], lowered)}

\* C4: post creation flags a text exactly when some banned term occurs as
\* a substring of the lowercased text, word boundaries playing no part.
C4_FlaggedIffBannedSubstring ==
  Classified => (verdict.flagged <=> bannedTermsIn(text) # {})

\* "spammer", a banned term inside a longer word, was flagged
C4_Witness ==
  /\ Classified
  /\ text = <<"s","p","a","m","m","e","r">>
  /\ verdict.flagged

Answers(op) == {i \in 1..Len(log) : log[i].op = op}

\* the response carries a post or a verdict
Carries(e) == e.result # <<>>

\* C3 as stated: wherever the program moderates text, a text, its upper
\* case and its lower case get the same moderation verdict and the same
\* sentiment label.
C3_CaseInsensitive ==
  \A i \in 1..Len(log) : \A j \in 1..Len(log) :
    (/\ log[i].op = log[j].op
     /\ Carries(log[i])
     /\ Carries(log[j])
     /\ log[j].body[1] \in {toUpperCase(log[i].body[1]), toLowerCase(log[i].body[1])})
    => /\ log[i].result[1].flagged = log[j].result[1].flagged
       /\ (log[i].op = "createPost"
             => log[i].result[1].sentiment = log[j].result[1].sentiment)

\* C5: every stored post carries a flag reason exactly when it is flagged,
\* and the reason of a flagged post is the fixed reason string.
C5_ReasonIffFlagged ==
  \A i \in 1..Len(posts) :
    /\ (posts[i].flagReason # Undefined) <=> posts[i].flagged
    /\ posts[i].flagged => posts[i].flagReason = FlagReasonText

\* a flagged post with the reason and an unflagged post without one are stored
C5_Witness ==
  /\ \E i \in 1..Len(posts) :
       posts[i].flagged /\ posts[i].flagReason = FlagReasonText
  /\ \E i \in 1..Len(posts) :
       ~posts[i].flagged /\ posts[i].flagReason = Undefined

\* C6 as stated: the moderation operation answers every request with a
\* verdict, and the verdict for a null or absent text is not flagged.
C6_ModerationNeverFails ==
  \A i \in Answers("moderate") :
    /\ log[i].status = 200
    /\ Carries(log[i])
    /\ (log[i].body = Absent => ~log[i].result[1].flagged)

\* the label the presence of lexicon terms in the content calls for
labelOf(content) ==
  IF hits(positiveWords, content) > 0 /\ hits(negativeWords, content) = 0
    THEN "Positive"
  ELSE IF hits(negativeWords, content) > 0 /\ hits(positiveWords, content) = 0
    THEN "Negative"
  ELSE "Neutral"

\* the request passes authentication, validation and the database calls
Acceptable(e) ==
  /\ e.session # NoSession
  /\ e.body # Absent
  /\ Len(trim(e.body[1])) > 0
  /\ Len(e.body[1]) <= MaxContentLength
  /\ e.dbUp

\* C8: post creation answers every acceptable request with 201, flagged or
\* not; the created post carries a flag and the sentiment label that the
\* lexicon terms of its content call for, whether or not it is flagged, and
\* it is stored with that flag and that label.
C8_BothVerdictsAlways ==
  \A i \in Answers("createPost") :
    /\ Acceptable(log[i]) => log[i].status = 201
    /\ log[i].status = 201 =>
         /\ Carries(log[i])
         /\ log[i].result[1].flagged = (bannedTermsIn(log[i].body[1]) # {})
         /\ log[i].result[1].sentiment = labelOf(log[i].body[1])
         /\ \E k \in 1..Len(posts) :
              /\ posts[k].id = log[i].result[1].id
              /\ posts[k].flagged = log[i].result[1].flagged
              /\ posts[k].sentiment = log[i].result[1].sentiment

\* a flagged post was created and stored with the label Positive
C8_Witness ==
  \E i \in Answers("createPost") :
    /\ log[i].status = 201
    /\ log[i].result[1].flagged
    /\ log[i].result[1].sentiment = "Positive"
    /\ \E k \in 1..Len(posts) :
         /\ posts[k].flagged
         /\ posts[k].sentiment = "Positive"
         /\ posts[k].id = log[i].result[1].id

(***************************************************************************)
(* Properties of the caption suggestions.                                  *)
(***************************************************************************)
\* the entries of a sequence are pairwise distinct
Distinct(seq) == \A p \in 1..Len(seq) : \A q \in 1..Len(seq) : p # q => seq[p] # seq[q]

\* C9: whatever the form's content is, empty or not, the form offers
\* between 3 and 5 caption suggestions and they are pairwise distinct.
C9_CaptionBounds ==
  /\ Len(suggestions) >= 3
  /\ Len(suggestions) <= 5
  /\ Distinct(suggestions)

\* captions are offered while the form holds a text the user typed
C9_Witness ==
  /\ formContent # <<>>
  /\ \A i \in 1..Len(SUGGESTED_CAPTIONS) : formContent # SUGGESTED_CAPTIONS[i]
  /\ Len(suggestions) = 3
  /\ Distinct(suggestions)

\* the catalog position of a suggested caption
positionOf(caption) ==
  CHOOSE i \in 1..Len(CaptionCatalog) : CaptionCatalog[i].text = caption

\* the catalog positions whose template has a trigger keyword somewhere in
\* the lowercased context
matchingPositions ==
  LET lowered == toLowerCase(capContext[1])
  IN  {i \in 1..Len(CaptionCatalog) :
         \E trigger \in CaptionCatalog[i].triggers : occursIn(trigger, lowered)}

Generated == capResult # <<>>

createdAt == {i \in DOMAIN log : log[i].op = "createPost" /\ log[i].status = 201}

\* the calls that have classified their content and not answered yet
classifiedCalls ==
  {c \in DOMAIN calls : calls[c].pc \in {"create", "user"}}

\* C11: the classification of a post creation is a function of the text
\* alone: however the concurrent calls interleave, the sentiment, the flag
\* and the reason a call computes, stores and returns are those the same
\* text gets when it is classified alone, and two calls on the same text
\* get the same ones.
C11_CallsAreIndependent ==
  /\ \A c \in classifiedCalls : calls[c].local = classify(calls[c].body[1])
  /\ \A i \in createdAt :
       LET alone == classify(log[i].body[1])
           r == log[i].result[1]
       IN  /\ r.sentiment = alone.sentiment
           /\ r.flagged = alone.flagged
           /\ r.flagReason = alone.flagReason
           /\ \E k \in DOMAIN posts :
                /\ posts[k].id = r.id
                /\ posts[k].sentiment = alone.sentiment
                /\ posts[k].flagged = alone.flagged
  /\ \A i, j \in createdAt :
       log[i].body = log[j].body =>
         /\ log[i].result[1].sentiment = log[j].result[1].sentiment
         /\ log[i].result[1].flagged = log[j].result[1].flagged

\* two calls on different texts overlapped, the one that stored its post
\* second answered first, and each got its own verdict
C11_Witness ==
  /\ Len(log) >= 2
  /\ {1, 2} \subseteq createdAt
  /\ log[1].result[1].id > log[2].result[1].id
  /\ log[1].result[1].flagged
  /\ ~log[2].result[1].flagged
  /\ log[1].result[1].sentiment # log[2].result[1].sentiment


(***************************************************************************)
(* Properties of the stored posts.                                         *)
(***************************************************************************)
\* C12: the sentiment label is exactly one of Positive, Neutral and
\* Negative, never null or undefined: every post that is stored, and every
\* post that a response returns, has a sentiment in that set.
C12_SentimentInEnum ==
  /\ \A k \in DOMAIN posts : posts[k].sentiment \in SentimentTypes
  /\ \A i \in Answers("createPost") :
       log[i].status = 201 => log[i].result[1].sentiment \in SentimentTypes

\* two posts are stored, one of a text with a lexicon term and one of a
\* text with none
C12_Witness ==
  /\ Len(posts) = 2
  /\ posts[1].sentiment = "Positive"
  /\ posts[2].sentiment = "Neutral"
  /\ hits(positiveWords, posts[2].content) = 0
  /\ hits(negativeWords, posts[2].content) = 0


\* the banned terms occurring in t, in the order of the lexicon
matchedIn(t) ==
  SelectSeq(bannedWords, LAMBDA w : occursIn(w, toLowerCase(t)))

C14_IsFlaggedAliasesFlagged ==
  /\ \A i \in DOMAIN log :
       (log[i].op = "createPost" /\ Carries(log[i])) =>
          log[i].result[1].isFlagged = log[i].result[1].flagged
  /\ \A k \in DOMAIN dashPosts : dashPosts[k].isFlagged = dashPosts[k].flagged


(***************************************************************************)
(* Properties of the write requests on the store.                          *)
(***************************************************************************)
storedIds == {posts[k].id : k \in DOMAIN posts}

\* the stored post with the given id
storedPost(id) == CHOOSE post \in {posts[k] : k \in DOMAIN posts} : post.id = id

\* this step answers a request of the given kind
answers(op) == reply'.op = op /\ <<posts, comments, reply>>' # <<posts, comments, reply>>

\* every post but the one with the given id is stored as it was
othersKept(id) ==
  \A k \in DOMAIN posts :
    posts[k].id # id => \E j \in DOMAIN posts' : posts'[j] = posts[k]

likers(likes) == {likes[k] : k \in DOMAIN likes}

\* C16: POST /api/likes toggles: a user who is not in the post's likes is
\* added and isLiked is true, a user who is in them is removed and isLiked
\* is false; the likes count returned is the size of the likes set after
\* the toggle; the other users' likes, the rest of the post and the other
\* posts stay as they were; and two successive toggles of one user on one
\* post restore the likes set the post had before them.
C16_LikeToggles ==
  [][answers("toggleLike") =>
      IF reply'.status # 200
        THEN /\ posts' = posts
             /\ (reply'.session # NoSession /\ reply'.postId # Absent /\ reply'.dbUp)
                  => reply'.postId[1] \notin storedIds
        ELSE LET id == reply'.postId[1]
                 userId == reply'.session
                 before == likers(storedPost(id).likes)
                 updated == (CHOOSE q \in {posts'[k] : k \in DOMAIN posts'} : q.id = id)
                 after == likers(updated.likes)
             IN  /\ userId # NoSession
                 /\ userId \notin before =>
                      (after = before \cup {userId} /\ reply'.data.isLiked)
                 /\ userId \in before =>
                      (after = before \ {userId} /\ ~reply'.data.isLiked)
                 /\ reply'.data.likes = Cardinality(after)
                 /\ Len(updated.likes) = Cardinality(after)
                 /\ updated = [storedPost(id) EXCEPT !.likes = updated.likes]
                 /\ othersKept(id)
                 /\ Len(posts') = Len(posts)
                 /\ (/\ reply.op = "toggleLike"
                     /\ reply.status = 200
                     /\ reply.session = userId
                     /\ reply.postId = reply'.postId)
                      => after = likers(reply.data.likesBefore)
    ]_vars

\* a user took back the like on a post that another user likes too: one
\* like is left
C16_Witness ==
  /\ reply.op = "toggleLike"
  /\ reply.status = 200
  /\ ~reply.data.isLiked
  /\ Len(reply.data.likesBefore) = 2
  /\ reply.data.likes = 1
  /\ likers(storedPost(reply.postId[1]).likes) = Users \ {reply.session}


WriteOps == {"createPost", "createComment", "toggleLike", "deletePost"}

\* C17: every write request (create post, create comment, toggle like,
\* delete post) that carries no valid session token is answered 401
\* 'Authentication required' and leaves the stored users, posts, comments
\* and likes as they were, whatever its body and whether or not the database
\* is reachable: the session is checked before any validation or write;
\* and no request with a session is answered 401.
C17_WritesNeedSession ==
  [][(\E op \in WriteOps : answers(op)) =>
       /\ reply'.session = NoSession =>
            /\ reply'.status = 401
            /\ reply'.error = "Authentication required"
            /\ UNCHANGED <<posts, nextPostId, comments, nextCommentId, users>>
       /\ reply'.status = 401 => reply'.session = NoSession
    ]_vars

\* with a post stored, a comment request with no session, an invalid body
\* and the database down got 401
C17_Witness ==
  /\ reply.op = "createComment"
  /\ reply.session = NoSession
  /\ ~reply.bodyOk
  /\ ~reply.dbUp
  /\ reply.status = 401
  /\ Len(posts) = 1


(***************************************************************************)
(* Properties of registration.                                             *)
(***************************************************************************)
\* this step answers a registration
registers == reply'.op = "register" /\ <<users, reply>>' # <<users, reply>>

\* a stored user has the email, or the username, in lower case
emailTaken(email) ==
  \E k \in DOMAIN users : users[k].email = toLowerCase(email)

usernameTaken(username) ==
  \E k \in DOMAIN users : users[k].username = toLowerCase(username)

\* no two stored users share a lowercased email or a lowercased username
uniqueUsers ==
  \A j, k \in DOMAIN users :
    j # k => /\ toLowerCase(users[j].email) # toLowerCase(users[k].email)
             /\ toLowerCase(users[j].username) # toLowerCase(users[k].username)

\* a registration that passed validation and reached the database
reachedLookup == reply'.valid /\ reply'.dbUp

\* the registration stored nothing and set no cookie
nothingRegistered == users' = users /\ reply'.setCookie = <<>>

inFlight == {r \in DOMAIN runs : runs[r].state \in {"connecting", "waiting"}}

\* the runs that opened a connection
established == {r \in DOMAIN runs : runs[r].state = "resolved"}

awaiting == {c \in DOMAIN callers : callers[c].pc \in {"awaitPending", "awaitNew"}}

\* C19: connectDB() never opens duplicate connections: however the
\* concurrent calls interleave, at most one connectWithRetry run is in
\* flight at a time, every caller that arrived while it is pending awaits
\* that same promise, which is the cached one, and once a connection is
\* established no new run is ever started: one connection is opened and
\* every call that returns returns it.
C19_OneConnectionAttempt ==
  /\ Cardinality(inFlight) <= 1
  /\ \A c \in awaiting :
       callers[c].promise \in inFlight =>
         /\ cachedPromise = <<callers[c].promise>>
         /\ \A d \in awaiting :
              callers[d].promise \in inFlight =>
                callers[d].promise = callers[c].promise
  /\ inFlight # {} => \E c \in awaiting : cachedPromise = <<callers[c].promise>>
  /\ Cardinality(established) <= 1
  /\ established # {} => inFlight = {}
  /\ established # {} => \A r \in DOMAIN runs : r \in established \/ runs[r].state = "rejected"
  /\ cachedConn # Absent =>
       \E r \in established : cachedConn = runs[r].conn
  /\ \A c \in DOMAIN callers :
       callers[c].pc = "returned" =>
         \E r \in established : callers[c].conn = runs[r].conn[1]

\* two calls overlap: the second arrived while the run the first started
\* was pending, at its second attempt, and both await that one promise
C19_Witness ==
  /\ Len(runs) = 1
  /\ runs[1].state = "connecting"
  /\ runs[1].attempt = 2
  /\ \E c, d \in DOMAIN callers :
       /\ callers[c].pc = "awaitNew"
       /\ callers[d].pc = "awaitPending"
       /\ callers[c].promise = 1
       /\ callers[d].promise = 1

\* the run has settled
settled(r) == r \in DOMAIN runs /\ runs[r].state \in {"resolved", "rejected"}

\* what holds of every run at every moment
retryBounds ==
  \A r \in DOMAIN runs :
    /\ runs[r].attempt \in 1..Retries
    /\ Len(runs[r].waits) <= 2
    /\ \A k \in DOMAIN runs[r].waits : runs[r].waits[k] >= Delay * pow2(k - 1)
    /\ runs[r].state = "connecting" => Len(runs[r].waits) = runs[r].attempt - 1
    /\ runs[r].state = "waiting" => Len(runs[r].waits) = runs[r].attempt
    /\ runs[r].state = "resolved" =>
         /\ runs[r].conn = <<[run |-> r, attempt |-> runs[r].attempt]>>
         /\ Len(runs[r].waits) = runs[r].attempt - 1
    /\ runs[r].state = "rejected" =>
         /\ runs[r].attempt = 3
         /\ Len(runs[r].waits) = 2
         /\ runs[r].error = "Failed to connect to MongoDB after 3 attempts"
    /\ runs[r].error # "Unexpected error in connectWithRetry"

\* C20: connectWithRetry with retries = 3 terminates after at most 3
\* attempts: it returns the connection of the first attempt that succeeds
\* and makes no further attempt; when all 3 fail it throws 'Failed to
\* connect to MongoDB after 3 attempts' having waited exactly twice, with
\* no wait after the last failure; the wait before attempt k+1 is at least
\* delay * 2^(k-1) ms; and the final 'Unexpected error' throw is never
\* reached.
C20_RetryTerminates ==
  /\ []retryBounds
  /\ [][\A r \in DOMAIN runs : settled(r) => runs'[r] = runs[r]]_vars
  /\ \A r \in 1..MaxCallers : [](r \in DOMAIN runs => <>settled(r))

\* a run failed three times, waited twice and threw
C20_Witness ==
  \E r \in DOMAIN runs :
    /\ runs[r].state = "rejected"
    /\ runs[r].attempt = 3
    /\ Len(runs[r].waits) = 2
    /\ runs[r].waits[2] >= 2000

\* caller c goes on after the promise it awaited was rejected
failsAt(c) ==
  /\ callers[c].pc \in {"awaitPending", "awaitNew"}
  /\ callers'[c] # callers[c]
  /\ runs[callers[c].promise].state = "rejected"

\* a call of disconnectDB() returns in this step
disconnectReturns ==
  \E d \in DOMAIN closers : closers[d].pc # "returned" /\ closers'[d].pc = "returned"

\* C21: a failed connection is not cached: every caller awaiting a failed
\* attempt receives its error, cached.conn stays as it was and the caller
\* that started the attempt clears cached.promise; a connectDB call that
\* finds both cache fields null starts a fresh attempt; and when a call of
\* disconnectDB returns, both cache fields are null.
C21_FailureNotCached ==
  [][ /\ \A c \in DOMAIN callers :
           failsAt(c) =>
             /\ callers'[c] = [pc |-> "threw",
                               error |-> runs[callers[c].promise].error]
             /\ cachedConn' = cachedConn
             /\ callers[c].pc = "awaitNew" => cachedPromise' = Absent
      /\ \A c \in DOMAIN callers :
           (/\ callers[c] = NotCalled
            /\ callers'[c] # NotCalled
            /\ cachedConn = Absent
            /\ cachedPromise = Absent) =>
             /\ Len(runs') = Len(runs) + 1
             /\ runs'[Len(runs')].state = "connecting"
             /\ cachedPromise' = <<Len(runs')>>
      /\ disconnectReturns => cachedConn' = Absent /\ cachedPromise' = Absent
    ]_vars

\* the ids of the stored comments of a post
commentIds(postId) ==
  {findComments(postId)[i].id : i \in DOMAIN findComments(postId)}

\* the comments array of a post holds the ids of its stored comments, each
\* once, and nothing else
arrayMatches(post) ==
  /\ {post.comments[i] : i \in DOMAIN post.comments} = commentIds(post.id)
  /\ Len(post.comments) = Cardinality(commentIds(post.id))

allArraysMatch == \A i \in DOMAIN posts : arrayMatches(posts[i])

allCountsAgree ==
  \A i \in DOMAIN posts : commentsCount(posts[i]) = commentsTotal(posts[i].id)

\* a comment creation was answered with an error after its comment was
\* stored
failedCreation == reply'.op = "createComment" /\ reply'.status # 201

\* C22: as long as every comment creation succeeds, each post's comments
\* array holds exactly once the id of every stored comment of that post and
\* no other id, and the comment count reported for the post equals the
\* total of GET /api/comments for it.
C22_CommentsArrayMatches ==
  [][ (allArraysMatch /\ ~failedCreation) =>
        (allArraysMatch' /\ allCountsAgree') ]_vars

C22_Witness ==
  /\ reply.op = "createComment"
  /\ reply.status = 201
  /\ allArraysMatch
  /\ \E i \in DOMAIN posts :
       /\ Len(posts[i].comments) = 2
       /\ commentsTotal(posts[i].id) = 2

\* C23: referential integrity of comments: every stored comment's postId
\* is the id of a stored post, after any sequence of post creations,
\* comment creations and post deletions.
C23_NoOrphanedComments ==
  \A i \in DOMAIN comments : findById(comments[i].postId) # <<>>

\* C24: all moderation entry points agree: for every text, the verdict of
\* the moderation endpoint, the flag assigned by post creation and the
\* block decision of the create-post form are the same.
C24_EntryPointsAgree ==
  (verdict # NoVerdict /\ modVerdict # NoVerdict) =>
    /\ modVerdict.flagged = verdict.flagged
    /\ formBlocks(text) = verdict.flagged

====
